---- MODULE Spec2Model ----
(***************************************************************************)
(* State-machine model of the allocators of src/main.cpp:                  *)
(*   cDefaultAllocator<T>  (lines 67-162)  - stateless pass-through        *)
(*   cCountedAllocator<T>  (lines 169-281) - two size_t counters and the   *)
(*                                           assertions on them            *)
(* together with the process-wide heap (::operator new / ::operator        *)
(* delete) the allocators delegate to.                                     *)
(*                                                                         *)
(* size_t is modelled with its width: every counter update and the byte    *)
(* size num * sizeof(T) are reduced modulo 2^SIZE_BITS.  The build sets no *)
(* NDEBUG (src/CMakeLists.txt:13), so assert() is active and a failed      *)
(* assertion aborts the process.                                           *)
(***************************************************************************)
EXTENDS Integers, FiniteSets, Sequences

\* ------------------------------------------------------------------ bounds
\* Number of allocator objects that can exist (a place is reused after the
\* allocator object in it has been destroyed).
MaxInst == 2
\* Number of distinct non-null addresses ::operator new can hand out.
MaxAddr == 1
\* Bytes the process-wide heap can hold at once.
HeapBytes == 3
\* Largest sizeof(T) of the element types the allocators are bound to.
MaxElemSize == 2
\* Width of std::size_t in bits (scaled down from 64).
SIZE_BITS == 2
\* Number of records on std::cerr that are followed.
MaxTrace == 4
\* Largest difference between the allocate counts and the deallocate counts
\* that is followed when they are summed over an object and its copies.
MaxNetAll == 1

Inst == 1..MaxInst
Addr == 1..MaxAddr
NullPtr == 0
ElemSizes == 1..MaxElemSize

\* std::numeric_limits<std::size_t>::max() + 1
Modulus == 2 ^ SIZE_BITS
\* std::numeric_limits<std::size_t>::max()
SIZE_MAX == Modulus - 1
\* every value of size_type
SizeT == 0..SIZE_MAX
\* The heap lies inside the address space: it never holds SIZE_MAX + 1 bytes.
HeapCap == IF HeapBytes < SIZE_MAX THEN HeapBytes ELSE SIZE_MAX

Strategies == {"Default", "Counted"}

VARIABLES
  status,        \* [Inst -> "none" | "live" | "destroyed"]: lifetime of the object
  strategy,      \* the class template in use: "Default" | "Counted"
  elemSize,      \* [Inst -> ElemSizes]: sizeof(T) of the object's parameter T
  nAllocated,    \* [Inst -> SizeT]: member nAllocated (0 for cDefaultAllocator)
  nConstructed,  \* [Inst -> SizeT]: member nConstructed (0 for cDefaultAllocator)
  blocks,        \* [Addr -> [bytes, num, used]]: storage handed out by ::operator new
  objs,          \* set of objects [a, off, size] living in that storage
  outcome,       \* how the most recent call ended
  hist           \* history of the calls made on the observed allocator object

\* The program's state.
prog == <<status, strategy, elemSize, nAllocated, nConstructed, blocks, objs,
          outcome>>
vars == <<status, strategy, elemSize, nAllocated, nConstructed, blocks, objs,
          outcome, hist>>

\* size_t arithmetic: unsigned, modulo 2^SIZE_BITS
AddSizeT(x, y) == (x + y) % Modulus
\* Variant of the subtraction with a fault seeded: a signed counter (C6).
SubSizeT_signed(x, y) == x - y
SubSizeT(x, y) == (x - y + Modulus) % Modulus
MulSizeT(x, y) == (x * y) % Modulus

\* An address of the heap that is not in use.
NoBlock == [bytes |-> 0, num |-> 0, used |-> FALSE]
Live(a) == blocks[a].used
\* bytes in use on the heap
RECURSIVE SumBytes(_)
SumBytes(S) ==
  IF S = {} THEN 0
  ELSE LET a == CHOOSE x \in S : TRUE IN blocks[a].bytes + SumBytes(S \ {a})
HeapUsed == SumBytes(Addr)

\* Outcomes of a call: it returned, it threw std::bad_alloc, or an assert()
\* failed and the process was aborted.
Returned == [kind |-> "ok", inst |-> 0, what |-> ""]
BadAlloc == [kind |-> "bad_alloc", inst |-> 0, what |-> ""]
AssertFailed(i, cond) == [kind |-> "assert", inst |-> i, what |-> cond]
Aborted == outcome.kind = "assert"
Running == ~Aborted

\* History of the observed allocator object (not program state: bookkeeping
\* of the calls made on it, kept by the specifications below).
\*   netAlloc  : sum of allocate counts - sum of deallocate counts
\*   netConstr : number of construct calls - number of destroy calls
\*   worked    : a construct call has completed on the object
\*   over      : a deallocate call had num > nAllocated
\*   carried   : an increment carried a counter past SIZE_MAX
\*   netAll    : netAlloc taken over the object and all of its copies
\*   step      : number of steps of the container scenario that are complete
\*   cerr      : what has been written to std::cerr (the stream is only ever
\*               written, no call reads it)
NoHist == [netAlloc |-> 0, netConstr |-> 0, worked |-> FALSE, over |-> FALSE,
           carried |-> FALSE, netAll |-> 0, step |-> 0, cerr |-> <<>>]

Init ==
  /\ status = [i \in Inst |-> "none"]
  /\ strategy \in Strategies
  /\ elemSize = [i \in Inst |-> 1]
  /\ nAllocated = [i \in Inst |-> 0]
  /\ nConstructed = [i \in Inst |-> 0]
  /\ blocks = [a \in Addr |-> NoBlock]
  /\ objs = {}
  /\ outcome = Returned
  /\ hist = NoHist

\* ------------------------------------------------------------ constructors
\* An allocator object can be created where none exists.
Unused(i) == status[i] \in {"none", "destroyed"}
Alive(i) == status[i] = "live"
Counted == strategy = "Counted"

\* cDefaultAllocator() / cCountedAllocator(): both counters start at 0.
DefaultCtor(i, sz) ==
  /\ Running
  /\ Unused(i)
  /\ status' = [status EXCEPT ![i] = "live"]
  /\ elemSize' = [elemSize EXCEPT ![i] = sz]
  /\ nAllocated' = [nAllocated EXCEPT ![i] = 0]
  /\ nConstructed' = [nConstructed EXCEPT ![i] = 0]
  /\ outcome' = Returned
  /\ UNCHANGED <<strategy, blocks, objs>>

\* The value of allocator object i: its parameter T (by size) and its members.
AllocatorValue(i) ==
  [size |-> elemSize[i], nAllocated |-> nAllocated[i],
   nConstructed |-> nConstructed[i]]

\* Variant of the member initializers with a fault seeded: the copy starts
\* from 0 like a default-constructed object (C8).
CopyOf_fresh(rhs, sz) ==
  [size |-> sz, nAllocated |-> 0, nConstructed |-> 0]

\* Member initializers of the copy constructor and of the converting
\* constructor: nAllocated(rhs.nAllocated), nConstructed(rhs.nConstructed),
\* for an object parameterized with a T of size sz.
CopyOf(rhs, sz) ==
  [size |-> sz, nAllocated |-> rhs.nAllocated, nConstructed |-> rhs.nConstructed]

\* Copy constructor (sz = elemSize[src]) and converting constructor from
\* another specialization (rebind<U>::other, any sz): the counters are
\* initialised from rhs; rhs is const.
CopyCtor(src, dst, sz) ==
  /\ Running
  /\ Alive(src)
  /\ dst # src
  /\ Unused(dst)
  /\ status' = [status EXCEPT ![dst] = "live"]
  /\ LET copy == CopyOf(AllocatorValue(src), sz) IN
       /\ elemSize' = [elemSize EXCEPT ![dst] = copy.size]
       /\ nAllocated' = [nAllocated EXCEPT ![dst] = copy.nAllocated]
       /\ nConstructed' = [nConstructed EXCEPT ![dst] = copy.nConstructed]
  /\ outcome' = Returned
  /\ UNCHANGED <<strategy, blocks, objs>>

\* -------------------------------------------------------------- destructor
\* Variant of the destructor with a fault seeded: the second assertion is
\* missing (C2).
Destructor_oneAssert(i) ==
  /\ Running
  /\ Alive(i)
  /\ IF Counted /\ nAllocated[i] # 0
       THEN /\ outcome' = AssertFailed(i, "nAllocated == 0")
            /\ UNCHANGED status
     ELSE /\ outcome' = Returned
          /\ status' = [status EXCEPT ![i] = "destroyed"]
  /\ UNCHANGED <<strategy, elemSize, nAllocated, nConstructed, blocks, objs>>

\* ~cDefaultAllocator() does nothing; ~cCountedAllocator() asserts
\* nAllocated == 0, then nConstructed == 0.
Destructor(i) ==
  /\ Running
  /\ Alive(i)
  /\ IF Counted /\ nAllocated[i] # 0
       THEN /\ outcome' = AssertFailed(i, "nAllocated == 0")
            /\ UNCHANGED status
     ELSE IF Counted /\ nConstructed[i] # 0
       THEN /\ outcome' = AssertFailed(i, "nConstructed == 0")
            /\ UNCHANGED status
     ELSE /\ outcome' = Returned
          /\ status' = [status EXCEPT ![i] = "destroyed"]
  /\ UNCHANGED <<strategy, elemSize, nAllocated, nConstructed, blocks, objs>>

\* ---------------------------------------------------------------- allocate
\* The address ::operator new returns: the lowest one not in use.
FreshAddr(a) == ~Live(a) /\ \A b \in Addr : b < a => Live(b)

\* Variant of allocate with a fault seeded: the counter is raised by the
\* bytes obtained instead of the element count (C5).
allocate_bytes(i, num) ==
  /\ Running
  /\ Alive(i)
  /\ LET bytes == MulSizeT(num, elemSize[i]) IN
     \/ \E a \in Addr :
          /\ FreshAddr(a)
          /\ HeapUsed + bytes <= HeapCap
          /\ blocks' = [blocks EXCEPT ![a] = [bytes |-> bytes, num |-> num,
                                             used |-> TRUE]]
          /\ nAllocated' = [nAllocated EXCEPT ![i] =
                              IF Counted THEN AddSizeT(@, bytes) ELSE @]
          /\ outcome' = Returned
     \/ /\ outcome' = BadAlloc
        /\ UNCHANGED <<blocks, nAllocated>>
  /\ UNCHANGED <<status, strategy, elemSize, nConstructed, objs>>

\* Variant of allocate with a fault seeded: all allocator objects share one
\* counter (C15).
allocate_shared(i, num) ==
  /\ Running
  /\ Alive(i)
  /\ LET bytes == MulSizeT(num, elemSize[i]) IN
     \/ \E a \in Addr :
          /\ FreshAddr(a)
          /\ HeapUsed + bytes <= HeapCap
          /\ blocks' = [blocks EXCEPT ![a] = [bytes |-> bytes, num |-> num,
                                             used |-> TRUE]]
          /\ nAllocated' = [j \in Inst |->
                              IF Counted THEN AddSizeT(nAllocated[j], num)
                              ELSE nAllocated[j]]
          /\ outcome' = Returned
     \/ /\ outcome' = BadAlloc
        /\ UNCHANGED <<blocks, nAllocated>>
  /\ UNCHANGED <<status, strategy, elemSize, nConstructed, objs>>

\* Variant of allocate with a fault seeded: the counter is raised before the
\* storage is requested (C12).
allocate_countFirst(i, num) ==
  /\ Running
  /\ Alive(i)
  /\ nAllocated' = [nAllocated EXCEPT ![i] =
                      IF Counted THEN AddSizeT(@, num) ELSE @]
  /\ LET bytes == MulSizeT(num, elemSize[i]) IN
     \/ \E a \in Addr :
          /\ FreshAddr(a)
          /\ HeapUsed + bytes <= HeapCap
          /\ blocks' = [blocks EXCEPT ![a] = [bytes |-> bytes, num |-> num,
                                             used |-> TRUE]]
          /\ outcome' = Returned
     \/ /\ outcome' = BadAlloc
        /\ UNCHANGED blocks
  /\ UNCHANGED <<status, strategy, elemSize, nConstructed, objs>>

\* allocate(num): ::operator new(num * sizeof(T)), then nAllocated += num.
\* ::operator new either returns fresh storage of the requested size (when the
\* heap has room) or throws std::bad_alloc, which leaves allocate before the
\* counter is touched.
allocate(i, num) ==
  /\ Running
  /\ Alive(i)
  /\ LET bytes == MulSizeT(num, elemSize[i]) IN
     \/ \E a \in Addr :
          /\ FreshAddr(a)
          /\ HeapUsed + bytes <= HeapCap
          /\ blocks' = [blocks EXCEPT ![a] = [bytes |-> bytes, num |-> num,
                                             used |-> TRUE]]
          /\ nAllocated' = [nAllocated EXCEPT ![i] =
                              IF Counted THEN AddSizeT(@, num) ELSE @]
          /\ outcome' = Returned
     \/ /\ outcome' = BadAlloc
        /\ UNCHANGED <<blocks, nAllocated>>
  /\ UNCHANGED <<status, strategy, elemSize, nConstructed, objs>>

\* -------------------------------------------------------------- deallocate
\* Objects whose storage lies in block a.
ObjsIn(a) == {o \in objs : o.a = a}

\* Variants of deallocate with a fault seeded: the counter is left alone
\* (C1), or stops at 0 instead of wrapping (C7).
deallocate_uncounted(i, p, num) ==
  /\ Running
  /\ Alive(i)
  /\ IF p = NullPtr THEN TRUE ELSE Live(p)
  /\ blocks' = IF p = NullPtr THEN blocks ELSE [blocks EXCEPT ![p] = NoBlock]
  /\ objs' = IF p = NullPtr THEN objs ELSE objs \ ObjsIn(p)
  /\ outcome' = Returned
  /\ UNCHANGED <<status, strategy, elemSize, nAllocated, nConstructed>>
deallocate_clamped(i, p, num) ==
  /\ Running
  /\ Alive(i)
  /\ IF p = NullPtr THEN TRUE ELSE Live(p)
  /\ blocks' = IF p = NullPtr THEN blocks ELSE [blocks EXCEPT ![p] = NoBlock]
  /\ objs' = IF p = NullPtr THEN objs ELSE objs \ ObjsIn(p)
  /\ nAllocated' = [nAllocated EXCEPT ![i] =
                      IF Counted THEN (IF num > @ THEN 0 ELSE @ - num) ELSE @]
  /\ outcome' = Returned
  /\ UNCHANGED <<status, strategy, elemSize, nConstructed>>

\* Variant of deallocate with a fault seeded: it lowers both counters (C19).
deallocate_bothCounters(i, p, num) ==
  /\ Running
  /\ Alive(i)
  /\ IF p = NullPtr THEN TRUE ELSE Live(p)
  /\ blocks' = IF p = NullPtr THEN blocks ELSE [blocks EXCEPT ![p] = NoBlock]
  /\ objs' = IF p = NullPtr THEN objs ELSE objs \ ObjsIn(p)
  /\ nAllocated' = [nAllocated EXCEPT ![i] =
                      IF Counted THEN SubSizeT(@, num) ELSE @]
  /\ nConstructed' = [nConstructed EXCEPT ![i] =
                        IF Counted THEN SubSizeT(@, num) ELSE @]
  /\ outcome' = Returned
  /\ UNCHANGED <<status, strategy, elemSize>>

\* deallocate(p, num): ::operator delete(p), then nAllocated -= num.  p is a
\* pointer ::operator delete accepts: null or storage not yet released.
deallocate(i, p, num) ==
  /\ Running
  /\ Alive(i)
  /\ IF p = NullPtr THEN TRUE ELSE Live(p)
  /\ blocks' = IF p = NullPtr THEN blocks ELSE [blocks EXCEPT ![p] = NoBlock]
  /\ objs' = IF p = NullPtr THEN objs ELSE objs \ ObjsIn(p)
  /\ nAllocated' = [nAllocated EXCEPT ![i] =
                      IF Counted THEN SubSizeT(@, num) ELSE @]
  /\ outcome' = Returned
  /\ UNCHANGED <<status, strategy, elemSize, nConstructed>>

\* --------------------------------------------------------------- construct
\* Storage that belongs to the caller, outside the allocators' heap blocks.
Caller == -1
\* Objects whose bytes overlap [off, off + size) of block a.
Overlapping(a, off, size) ==
  {o \in ObjsIn(a) : o.off < off + size /\ off < o.off + o.size}

\* Variant of construct with a fault seeded: the counter is left alone (C3).
construct_uncounted(i, a, k) ==
  /\ Running
  /\ Alive(i)
  /\ IF a = Caller
       THEN k = 0 /\ UNCHANGED objs
     ELSE /\ Live(a)
          /\ (k + 1) * elemSize[i] <= blocks[a].bytes
          /\ LET off == k * elemSize[i] IN
               objs' = (objs \ Overlapping(a, off, elemSize[i])) \cup
                         {[a |-> a, off |-> off, size |-> elemSize[i]]}
  /\ outcome' = Returned
  /\ UNCHANGED <<status, strategy, elemSize, nAllocated, nConstructed, blocks>>

\* construct(p, value): placement new of a T at p, then nConstructed++.
\* p is element k of the heap block at a and lies inside it (writing a T
\* outside of it is undefined), or p is storage of the caller's (a = Caller).
\* An object already living in those bytes ends its lifetime without its
\* destructor.
construct(i, a, k) ==
  /\ Running
  /\ Alive(i)
  /\ IF a = Caller
       THEN k = 0 /\ UNCHANGED objs
     ELSE /\ Live(a)
          /\ (k + 1) * elemSize[i] <= blocks[a].bytes
          /\ LET off == k * elemSize[i] IN
               objs' = (objs \ Overlapping(a, off, elemSize[i])) \cup
                         {[a |-> a, off |-> off, size |-> elemSize[i]]}
  /\ nConstructed' = [nConstructed EXCEPT ![i] =
                        IF Counted THEN AddSizeT(@, 1) ELSE @]
  /\ outcome' = Returned
  /\ UNCHANGED <<status, strategy, elemSize, nAllocated, blocks>>

\* ----------------------------------------------------------------- destroy
\* An object of type T the caller built itself in its own storage.
CallerObj(i) == [a |-> Caller, off |-> 0, size |-> elemSize[i]]

\* Variant of destroy with a fault seeded: the assertion is compiled out, as
\* under NDEBUG (C4).
destroy_unchecked(i, o) ==
  /\ Running
  /\ Alive(i)
  /\ o \in objs \cup {CallerObj(i)}
  /\ o.size = elemSize[i]
  /\ objs' = objs \ {o}
  /\ outcome' = Returned
  /\ nConstructed' = [nConstructed EXCEPT ![i] =
                        IF Counted THEN SubSizeT(@, 1) ELSE @]
  /\ UNCHANGED <<status, strategy, elemSize, nAllocated, blocks>>

\* Variant of destroy with a fault seeded: the counter is left alone (C13).
destroy_uncounted(i, o) ==
  /\ Running
  /\ Alive(i)
  /\ o \in objs \cup {CallerObj(i)}
  /\ o.size = elemSize[i]
  /\ objs' = objs \ {o}
  /\ IF Counted /\ nConstructed[i] = 0
       THEN outcome' = AssertFailed(i, "nConstructed != 0")
     ELSE outcome' = Returned
  /\ UNCHANGED <<status, strategy, elemSize, nAllocated, nConstructed, blocks>>

\* Variant of destroy with a fault seeded: the assertion is made by both
\* class templates (C17).
destroy_checkedAlways(i, o) ==
  /\ Running
  /\ Alive(i)
  /\ o \in objs \cup {CallerObj(i)}
  /\ o.size = elemSize[i]
  /\ objs' = objs \ {o}
  /\ IF nConstructed[i] = 0
       THEN /\ outcome' = AssertFailed(i, "nConstructed != 0")
            /\ UNCHANGED nConstructed
     ELSE /\ outcome' = Returned
          /\ nConstructed' = [nConstructed EXCEPT ![i] =
                                IF Counted THEN SubSizeT(@, 1) ELSE @]
  /\ UNCHANGED <<status, strategy, elemSize, nAllocated, blocks>>

\* destroy(p): p->~T() runs first, then assert(nConstructed != 0), then
\* nConstructed--.  p points to a living object of type T: one in a heap
\* block or one of the caller's.
destroy(i, o) ==
  /\ Running
  /\ Alive(i)
  /\ o \in objs \cup {CallerObj(i)}
  /\ o.size = elemSize[i]
  /\ objs' = objs \ {o}
  /\ IF Counted /\ nConstructed[i] = 0
       THEN /\ outcome' = AssertFailed(i, "nConstructed != 0")
            /\ UNCHANGED nConstructed
     ELSE /\ outcome' = Returned
          /\ nConstructed' = [nConstructed EXCEPT ![i] =
                                IF Counted THEN SubSizeT(@, 1) ELSE @]
  /\ UNCHANGED <<status, strategy, elemSize, nAllocated, blocks>>

\* ------------------------------------------------------------- comparisons
\* Variant of operator== with a fault seeded: allocators compare by their
\* members (C9).
OperatorEq_members(i, j) ==
  nAllocated[i] = nAllocated[j] /\ nConstructed[i] = nConstructed[j]

\* operator==(const cXAllocator<T1>&, const cXAllocator<T2>&): return true.
\* Both operands are of the same class template; T1 and T2 are free.
OperatorEq(i, j) == TRUE
\* operator!=(const cXAllocator<T1>&, const cXAllocator<T2>&): return false.
OperatorNe(i, j) == FALSE

\* a == b and a != b evaluated by the caller; the operands are const.
Compare(i, j) ==
  /\ Running
  /\ Alive(i)
  /\ Alive(j)
  /\ outcome' = [kind |-> "cmp", inst |-> i, what |-> "",
                 eq |-> OperatorEq(i, j), ne |-> OperatorNe(i, j)]
  /\ UNCHANGED <<status, strategy, elemSize, nAllocated, nConstructed, blocks, objs>>

\* ----------------------------------------------------------------- queries
\* Variants of max_size with a fault seeded: the division by sizeof(T) is
\* missing (C11), or it rounds up (C18).
max_size_bytes(sz) == SIZE_MAX
max_size_roundedUp(sz) == (SIZE_MAX + sz - 1) \div sz

\* max_size(): std::numeric_limits<std::size_t>::max() / sizeof(T), the same
\* in both class templates.
max_size(sz) == SIZE_MAX \div sz

\* a.max_size() evaluated by the caller; const, nothing is changed.
MaxSize(i) ==
  /\ Running
  /\ Alive(i)
  /\ outcome' = [kind |-> "max_size", inst |-> i, what |-> "",
                 value |-> max_size(elemSize[i])]
  /\ UNCHANGED <<status, strategy, elemSize, nAllocated, nConstructed, blocks, objs>>

\* address(value): return &value, for the reference and the const reference.
address(o) == [a |-> o.a, off |-> o.off]

\* a.address(value) evaluated by the caller for a living object of type T;
\* const, nothing is changed.
Address(i, o) ==
  /\ Running
  /\ Alive(i)
  /\ o \in objs \cup {CallerObj(i)}
  /\ o.size = elemSize[i]
  /\ outcome' = [kind |-> "address", inst |-> i, what |-> "", ptr |-> address(o)]
  /\ UNCHANGED <<status, strategy, elemSize, nAllocated, nConstructed, blocks, objs>>

\* ------------------------------------------------------------ call domains
\* Element indices a pointer into a block can have.
Slots == 0..(HeapCap - 1)
\* Objects a pointer can refer to.
Objects == [a : Addr \cup {Caller}, off : Slots, size : ElemSizes]
\* Pointers deallocate can be given.
Pointers == {NullPtr} \cup Addr

\* ------------------------------------- an allocator object and its copies
\* The observed allocator object, always default-constructed.
Obs == 1
\* The other allocator objects: copies of it, or rebound copies for another T.
Copies == Inst \ {Obs}

\* Every call on the object and on its copies, comparisons included.  No
\* history is kept except whether a deallocate exceeded the counter.
NextCopies ==
  \/ \E sz \in ElemSizes : DefaultCtor(Obs, sz) /\ UNCHANGED hist
  \/ \E dst \in Copies, sz \in ElemSizes : CopyCtor(Obs, dst, sz) /\ UNCHANGED hist
  \/ \E i \in Inst : Destructor(i) /\ UNCHANGED hist
  \/ \E i \in Inst, num \in SizeT : allocate(i, num) /\ UNCHANGED hist
  \/ \E i \in Inst, p \in Pointers, num \in SizeT :
       /\ deallocate(i, p, num)
       /\ hist' = [hist EXCEPT !.over = @ \/ (Counted /\ num > nAllocated[i])]
  \/ \E i \in Inst, a \in Addr \cup {Caller}, k \in Slots :
       construct(i, a, k) /\ UNCHANGED hist
  \/ \E i \in Inst, o \in Objects : destroy(i, o) /\ UNCHANGED hist
  \/ \E i \in Inst, j \in Inst : Compare(i, j) /\ UNCHANGED hist

SpecCopies == Init /\ [][NextCopies]_vars

\* ------------------------------------- one allocator object, history kept
\* Bound on the history sums (large enough for the counters to wrap in both
\* directions).
MaxNet == Modulus

\* Bookkeeping of a call on the observed object, from the call's arguments,
\* the counters before it and its outcome.
AuditAllocate(num) ==
  hist' = IF outcome'.kind = "ok"
            THEN [hist EXCEPT !.netAlloc = @ + num,
                              !.carried = @ \/ (Counted /\ nAllocated[Obs] + num > SIZE_MAX)]
          ELSE hist
AuditDeallocate(num) ==
  hist' = [hist EXCEPT !.netAlloc = @ - num,
                       !.over = @ \/ (Counted /\ num > nAllocated[Obs])]
AuditConstruct ==
  hist' = [hist EXCEPT !.netConstr = @ + 1,
                       !.worked = TRUE,
                       !.carried = @ \/ (Counted /\ nConstructed[Obs] + 1 > SIZE_MAX)]
AuditDestroy ==
  hist' = IF outcome'.kind = "ok" THEN [hist EXCEPT !.netConstr = @ - 1] ELSE hist

\* Every call on one default-constructed allocator object, with any arguments.
NextOne ==
  \/ \E sz \in ElemSizes : DefaultCtor(Obs, sz) /\ hist' = NoHist
  \/ Destructor(Obs) /\ UNCHANGED hist
  \/ \E num \in SizeT :
       hist.netAlloc + num <= MaxNet /\ allocate(Obs, num) /\ AuditAllocate(num)
  \/ \E p \in Pointers, num \in SizeT :
       hist.netAlloc - num >= -MaxNet /\ deallocate(Obs, p, num) /\ AuditDeallocate(num)
  \/ \E a \in Addr \cup {Caller}, k \in Slots :
       hist.netConstr + 1 <= MaxNet /\ construct(Obs, a, k) /\ AuditConstruct
  \/ \E o \in Objects :
       hist.netConstr - 1 >= -MaxNet /\ destroy(Obs, o) /\ AuditDestroy

Spec == Init /\ [][NextOne]_vars

\* ------------------------- one allocator object, used correctly by one owner
\* Nothing the allocators handed out is outstanding.
AllReleased == (\A a \in Addr : ~Live(a)) /\ objs = {}

\* Calls of a single owner that keeps the contract: deallocate(p, n) for storage
\* that allocate(n) returned and that holds no object any more, construct on
\* storage of the object's not yet constructed, destroy on an object built by
\* construct, teardown after everything has been released.
NextOwner ==
  \/ \E sz \in ElemSizes : DefaultCtor(Obs, sz) /\ hist' = NoHist
  \/ AllReleased /\ Destructor(Obs) /\ UNCHANGED hist
  \/ \E num \in SizeT : allocate(Obs, num) /\ AuditAllocate(num)
  \/ \E p \in Addr :
       /\ Live(p)
       /\ ObjsIn(p) = {}
       /\ deallocate(Obs, p, blocks[p].num)
       /\ AuditDeallocate(blocks[p].num)
  \/ \E a \in Addr, k \in Slots :
       /\ Overlapping(a, k * elemSize[Obs], elemSize[Obs]) = {}
       /\ construct(Obs, a, k)
       /\ AuditConstruct
  \/ \E o \in objs : destroy(Obs, o) /\ AuditDestroy

SpecOwner == Init /\ [][NextOwner]_vars

\* ------------------ an allocator object and its copies, storage handed over
\* As NextOwner, but every call may go through the object or through a copy
\* of it: what one of them allocated or constructed is released through any.
NextShared ==
  \/ \E sz \in ElemSizes : DefaultCtor(Obs, sz) /\ UNCHANGED hist
  \/ \E dst \in Copies, sz \in ElemSizes : CopyCtor(Obs, dst, sz) /\ UNCHANGED hist
  \/ \E i \in Inst : AllReleased /\ Destructor(i) /\ UNCHANGED hist
  \/ \E i \in Inst, num \in SizeT : allocate(i, num) /\ UNCHANGED hist
  \/ \E i \in Inst, p \in Addr :
       /\ Live(p)
       /\ ObjsIn(p) = {}
       /\ deallocate(i, p, blocks[p].num)
       /\ UNCHANGED hist
  \/ \E i \in Inst, a \in Addr, k \in Slots :
       /\ Alive(i)
       /\ Overlapping(a, k * elemSize[i], elemSize[i]) = {}
       /\ construct(i, a, k)
       /\ UNCHANGED hist
  \/ \E i \in Inst, o \in objs : destroy(i, o) /\ UNCHANGED hist

SpecShared == Init /\ [][NextShared]_vars

\* ------------------------- allocator objects for several types, queries
\* Default-constructed allocator objects for any element types; every call
\* with any arguments on the first of them, and the const member functions
\* and comparisons on all of them.
NextQueries ==
  \/ \E i \in Inst, sz \in ElemSizes : DefaultCtor(i, sz) /\ UNCHANGED hist
  \/ \E i \in Inst : Destructor(i) /\ UNCHANGED hist
  \/ \E num \in SizeT : allocate(Obs, num) /\ UNCHANGED hist
  \/ \E p \in Pointers, num \in SizeT : deallocate(Obs, p, num) /\ UNCHANGED hist
  \/ \E a \in Addr \cup {Caller}, k \in Slots : construct(Obs, a, k) /\ UNCHANGED hist
  \/ \E o \in Objects : destroy(Obs, o) /\ UNCHANGED hist
  \/ \E i \in Inst : MaxSize(i) /\ UNCHANGED hist
  \/ \E i \in Inst, o \in Objects : Address(i, o) /\ UNCHANGED hist
  \/ \E i \in Inst, j \in Inst : Compare(i, j) /\ UNCHANGED hist

SpecQueries == Init /\ [][NextQueries]_vars

\* ------------------------------------------------ the container scenario
\* Number of elements TestContainer puts into a container.
ScenarioCount == 3

\* Number of elements of the run in progress: the count of its allocate call
\* (while the storage is held), afterwards recovered from the number of steps.
ScenarioElems ==
  IF \E a \in Addr : Live(a)
    THEN blocks[CHOOSE a \in Addr : Live(a)].num
  ELSE IF hist.step >= 2 THEN (hist.step - 2) \div 2 ELSE 0

\* The calls a container makes for n elements, one call per step: allocate(n),
\* n times construct, n times destroy (each in any order), deallocate(p, n),
\* then the teardown of the allocator object.  The container may evaluate
\* max_size() and compare the allocator in between.
NextScenario ==
  \/ \E sz \in ElemSizes : DefaultCtor(Obs, sz) /\ hist' = NoHist
  \/ /\ hist.step = 0
     /\ \E num \in SizeT \ {0} :
          /\ num <= max_size(elemSize[Obs])
          /\ allocate(Obs, num)
          /\ hist' = [hist EXCEPT !.step = IF outcome'.kind = "ok" THEN 1 ELSE 0]
  \/ /\ 1 <= hist.step
     /\ hist.step <= ScenarioElems
     /\ \E a \in Addr, k \in Slots :
          /\ Live(a)
          /\ k < blocks[a].num
          /\ Overlapping(a, k * elemSize[Obs], elemSize[Obs]) = {}
          /\ construct(Obs, a, k)
          /\ hist' = [hist EXCEPT !.step = @ + 1, !.worked = TRUE]
  \/ /\ ScenarioElems + 1 <= hist.step
     /\ hist.step <= 2 * ScenarioElems
     /\ \E o \in objs :
          /\ destroy(Obs, o)
          /\ hist' = [hist EXCEPT !.step = @ + 1]
  \/ /\ hist.step = 2 * ScenarioElems + 1
     /\ \E p \in Addr :
          /\ Live(p)
          /\ deallocate(Obs, p, blocks[p].num)
          /\ hist' = [hist EXCEPT !.step = @ + 1]
  \/ /\ hist.step = 2 * ScenarioElems + 2
     /\ Destructor(Obs)
     /\ UNCHANGED hist
  \/ MaxSize(Obs) /\ UNCHANGED hist
  \/ Compare(Obs, Obs) /\ UNCHANGED hist

SpecScenario == Init /\ [][NextScenario]_vars

\* --------------------------- an allocator object and its copies, totals
\* Every call on the object and on its copies (construct and destroy for
\* objects in the caller's own storage); the history keeps the sum of the
\* allocate counts minus the sum of the deallocate counts over all of them,
\* and whether a counter wrapped.
NextTotals ==
  \/ \E sz \in ElemSizes : DefaultCtor(Obs, sz) /\ hist' = NoHist
  \/ \E dst \in Copies, sz \in ElemSizes : CopyCtor(Obs, dst, sz) /\ UNCHANGED hist
  \/ \E i \in Inst : Destructor(i) /\ UNCHANGED hist
  \/ \E i \in Inst, num \in SizeT :
       /\ hist.netAll + num <= MaxNetAll
       /\ allocate(i, num)
       /\ hist' = IF outcome'.kind = "ok"
                    THEN [hist EXCEPT
                            !.netAll = @ + num,
                            !.carried = @ \/ (Counted /\ nAllocated[i] + num > SIZE_MAX)]
                  ELSE hist
  \/ \E i \in Inst, p \in Pointers, num \in SizeT :
       /\ hist.netAll - num >= -MaxNetAll
       /\ deallocate(i, p, num)
       /\ hist' = [hist EXCEPT !.netAll = @ - num,
                               !.over = @ \/ (Counted /\ num > nAllocated[i])]
  \/ \E i \in Inst :
       /\ construct(i, Caller, 0)
       /\ hist' = [hist EXCEPT
                     !.carried = @ \/ (Counted /\ nConstructed[i] + 1 > SIZE_MAX)]
  \/ \E i \in Inst : destroy(i, CallerObj(i)) /\ UNCHANGED hist

SpecTotals == Init /\ [][NextTotals]_vars

\* ------------------------------ one owner, correct use, the trace kept
\* What allocate writes to std::cerr: "allocate <num> element(s) of size
\* <sizeof(T)>" before ::operator new is called, and " at: <ret>" with the end
\* of the line after it has returned.  When ::operator new throws, the second
\* part is never written: the record stays without address (at holds no
\* address then) and without end of line.
CerrAllocate(i, num) ==
  hist' = [hist EXCEPT !.cerr = Append(@,
             IF outcome'.kind = "ok"
               THEN [op |-> "allocate", num |-> num, size |-> elemSize[i],
                     at |-> CHOOSE a \in Addr : ~Live(a) /\ Live(a)',
                     eol |-> TRUE]
             ELSE [op |-> "allocate", num |-> num, size |-> elemSize[i],
                   at |-> NullPtr, eol |-> FALSE])]

\* What deallocate writes to std::cerr, in one statement before
\* ::operator delete: "deallocate <num> element(s) of size <sizeof(T)> at: <p>"
\* and the end of the line.
CerrDeallocate(i, p, num) ==
  hist' = [hist EXCEPT !.cerr = Append(@,
             [op |-> "deallocate", num |-> num, size |-> elemSize[i],
              at |-> p, eol |-> TRUE])]

\* The calls of NextOwner on an allocator object of either class template,
\* with max_size, address and the comparison in between; the history keeps
\* what has been written to std::cerr.
NextTrace ==
  \/ \E sz \in ElemSizes : DefaultCtor(Obs, sz) /\ UNCHANGED hist
  \/ AllReleased /\ Destructor(Obs) /\ UNCHANGED hist
  \/ \E num \in SizeT :
       /\ Len(hist.cerr) < MaxTrace
       /\ allocate(Obs, num)
       /\ CerrAllocate(Obs, num)
  \/ \E p \in Addr :
       /\ Len(hist.cerr) < MaxTrace
       /\ Live(p)
       /\ ObjsIn(p) = {}
       /\ deallocate(Obs, p, blocks[p].num)
       /\ CerrDeallocate(Obs, p, blocks[p].num)
  \/ \E a \in Addr, k \in Slots :
       /\ Overlapping(a, k * elemSize[Obs], elemSize[Obs]) = {}
       /\ construct(Obs, a, k)
       /\ UNCHANGED hist
  \/ \E o \in objs : destroy(Obs, o) /\ UNCHANGED hist
  \/ MaxSize(Obs) /\ UNCHANGED hist
  \/ \E o \in objs : Address(Obs, o) /\ UNCHANGED hist
  \/ Compare(Obs, Obs) /\ UNCHANGED hist

SpecTrace == Init /\ [][NextTrace]_vars

\* =================================================================== claims
\* For the claims about one Counted allocator object.
ObsCounted == Counted /\ Alive(Obs)
ObsDestroyed == Counted /\ status[Obs] = "destroyed"

C2_TerminalInvariant ==
  [][(Counted /\ Destructor(Obs)) =>
       IF nAllocated[Obs] = 0 /\ nConstructed[Obs] = 0
         THEN status'[Obs] = "destroyed" /\ Running'
       ELSE /\ Aborted'
            /\ outcome'.inst = Obs
            /\ outcome'.what \in {"nAllocated == 0", "nConstructed == 0"}
            /\ status'[Obs] = "live"]_vars

\* C2 witness: allocate 3, construct 2, teardown: the teardown has ended in a
\* failed assertion.
C2_Witness ==
  /\ Counted
  /\ Aborted
  /\ outcome.inst = Obs
  /\ outcome.what = "nAllocated == 0"
  /\ nAllocated[Obs] = 3
  /\ nConstructed[Obs] = 2
  /\ hist.netAlloc = 3
  /\ hist.netConstr = 2

\* C4: destroy on a Counted allocator object whose nConstructed is 0 ends in
\* the failed assertion nConstructed != 0, and the counter stays 0.
C4_DestroyWithoutConstruct ==
  [][\A o \in Objects :
       (Counted /\ nConstructed[Obs] = 0 /\ destroy(Obs, o)) =>
         /\ Aborted'
         /\ outcome' = AssertFailed(Obs, "nConstructed != 0")
         /\ nConstructed'[Obs] = 0]_vars

\* C4 witness: destroy was called on a fresh object (no construct before it)
\* and the assertion has failed.
C4_Witness ==
  /\ Counted
  /\ outcome = AssertFailed(Obs, "nConstructed != 0")
  /\ nConstructed[Obs] = 0
  /\ hist.netConstr = 0
  /\ ~hist.worked

\* C5 (as stated): on a default-constructed Counted allocator object, as long
\* as no deallocate exceeded the counter, nAllocated is the allocate counts
\* minus the deallocate counts and nConstructed is the construct calls minus
\* the destroy calls.
C5_CountersAreSums ==
  (ObsCounted /\ ~hist.over) =>
    /\ nAllocated[Obs] = hist.netAlloc
    /\ nConstructed[Obs] = hist.netConstr

\* C5 (amended): the counters are those sums modulo 2^SIZE_BITS, and equal to
\* the sums as long as no deallocate exceeded the counter and no increment
\* carried a counter past SIZE_MAX.
C5_CountersAreSumsModulo ==
  ObsCounted =>
    /\ nAllocated[Obs] = hist.netAlloc % Modulus
    /\ nConstructed[Obs] = hist.netConstr % Modulus
    /\ (~hist.over /\ ~hist.carried) =>
         (nAllocated[Obs] = hist.netAlloc /\ nConstructed[Obs] = hist.netConstr)

\* C5 witness: allocate calls alone have carried nAllocated back to 0.
C5_Witness ==
  ObsCounted /\ ~hist.over /\ hist.netAlloc = Modulus /\ nAllocated[Obs] = 0

\* C7 (as stated): after a deallocate with num > nAllocated, the allocator
\* object is never destroyed successfully.
C7_NeverDestroyedAfterOver ==
  (Counted /\ hist.over) => status[Obs] # "destroyed"

\* C7 (amended): a deallocate with num > nAllocated returns normally and
\* leaves nAllocated wrapped to nAllocated - num + 2^SIZE_BITS, which is not
\* 0; a teardown after it fails while a counter is non-zero and succeeds once
\* later calls have brought both counters back to 0.
C7_OverDeallocateWraps ==
  [][Counted =>
       /\ \A p \in Pointers, num \in SizeT :
            (num > nAllocated[Obs] /\ deallocate(Obs, p, num)) =>
              /\ Running'
              /\ nAllocated'[Obs] = nAllocated[Obs] - num + Modulus
              /\ nAllocated'[Obs] # 0
       /\ (hist.over /\ Destructor(Obs)) =>
            (Running' <=> (nAllocated[Obs] = 0 /\ nConstructed[Obs] = 0))]_vars

\* C7 witness: the object was destroyed successfully after an
\* over-deallocation.
C7_Witness ==
  Counted /\ hist.over /\ status[Obs] = "destroyed"

\* C3: under correct usage of a default-constructed Counted allocator object
\* by a single owner no assertion fires, and once everything has been
\* released both counters are 0, so that the teardown succeeds.
C3_NoAssertionUnderCorrectUse ==
  Counted =>
    /\ Running
    /\ (Alive(Obs) /\ AllReleased) =>
         (nAllocated[Obs] = 0 /\ nConstructed[Obs] = 0)

\* C3 witness: the object has been destroyed after constructs, destroys,
\* allocates and deallocates that matched.
C3_Witness ==
  ObsDestroyed /\ Running /\ hist.worked /\ hist.netAlloc = 0 /\ hist.netConstr = 0

\* C6: both counters of every allocator object are >= 0 in every reachable
\* state, whatever calls and copies were made.
C6_CountersNonNegative ==
  \A i \in Inst : nAllocated[i] >= 0 /\ nConstructed[i] >= 0

\* C6 witness: a deallocate exceeded the counter of a copy, which now holds
\* SIZE_MAX, while the original's counter is 0.
C6_Witness ==
  /\ Counted
  /\ hist.over
  /\ Alive(Obs)
  /\ nAllocated[Obs] = 0
  /\ \E c \in Copies : Alive(c) /\ nAllocated[c] = SIZE_MAX

\* C8: the copy / converting constructor gives the new object the source's two
\* counters and the requested element type and leaves the source as it was;
\* rebinding the new object back to the source's element type gives the
\* source's value again, and the copy compares equal to the source.
C8_RebindIdentity ==
  [][\A dst \in Copies, sz \in ElemSizes :
       CopyCtor(Obs, dst, sz) =>
         /\ nAllocated'[dst] = nAllocated[Obs]
         /\ nConstructed'[dst] = nConstructed[Obs]
         /\ elemSize'[dst] = sz
         /\ AllocatorValue(Obs)' = AllocatorValue(Obs)
         /\ CopyOf(AllocatorValue(dst)', elemSize[Obs]) = AllocatorValue(Obs)
         /\ OperatorEq(Obs, dst)]_vars

\* C8 witness: a copy rebound to another element type that holds the same
\* non-zero counters as the original.
C8_Witness ==
  /\ Counted
  /\ Alive(Obs)
  /\ nAllocated[Obs] # 0
  /\ nConstructed[Obs] # 0
  /\ \E c \in Copies :
       /\ Alive(c)
       /\ elemSize[c] # elemSize[Obs]
       /\ nAllocated[c] = nAllocated[Obs]
       /\ nConstructed[c] = nConstructed[Obs]

\* C9: for any two allocator objects of the same class template, whatever
\* their counters and element types, a == b is true and a != b is false, in
\* both orders and for a = b; comparing changes no counter.
C9_Equivalence ==
  [][\A i \in Inst, j \in Inst :
       Compare(i, j) =>
         /\ outcome'.eq = TRUE
         /\ outcome'.ne = FALSE
         /\ OperatorEq(j, i) = TRUE
         /\ OperatorNe(j, i) = FALSE
         /\ OperatorEq(i, i) = TRUE
         /\ nAllocated' = nAllocated
         /\ nConstructed' = nConstructed]_vars

\* C9 witness: two Counted objects with different element types and
\* different counters have been compared and == has returned true.
C9_Witness ==
  /\ Counted
  /\ outcome.kind = "cmp"
  /\ outcome.eq = TRUE
  /\ outcome.ne = FALSE
  /\ \E c \in Copies :
       /\ outcome.inst = c
       /\ Alive(Obs)
       /\ Alive(c)
       /\ elemSize[c] # elemSize[Obs]
       /\ nAllocated[c] # nAllocated[Obs]
       /\ nConstructed[c] # nConstructed[Obs]

\* C10 (as stated): when storage allocated and objects constructed through one
\* Counted allocator object are released and destroyed through an equivalent
\* one, no assertion fires, and once everything has been released every
\* object's counters are 0, so that each can be destroyed.
C10_Interchangeable ==
  Counted =>
    /\ Running
    /\ AllReleased =>
         \A i \in Inst : Alive(i) => (nAllocated[i] = 0 /\ nConstructed[i] = 0)

\* C11 (as stated): max_size() for T equals max_size() for U multiplied by
\* sizeof(U) and divided by sizeof(T) with integer division, for any two
\* allocator objects of the same strategy.
C11_MaxSizeRatio ==
  [][\A i \in Inst, j \in Inst :
       (MaxSize(i) /\ Alive(j)) =>
         outcome'.value = (max_size(elemSize[j]) * elemSize[j]) \div elemSize[i]]_vars

\* C11 (amended): max_size() for T is floor(SIZE_MAX / sizeof(T)); it is at
\* least max_size() for U times sizeof(U) divided by sizeof(T), and equal to
\* it when sizeof(U) = sizeof(T) or sizeof(U) divides SIZE_MAX; it does not
\* grow with sizeof(T).
C11_MaxSizeBound ==
  [][\A i \in Inst, j \in Inst :
       (MaxSize(i) /\ Alive(j)) =>
         LET t == elemSize[i]
             u == elemSize[j]
             m == outcome'.value
         IN /\ m * t <= SIZE_MAX
            /\ SIZE_MAX < (m + 1) * t
            /\ m >= (max_size(u) * u) \div t
            /\ (t = u \/ SIZE_MAX % u = 0) => m = (max_size(u) * u) \div t
            /\ t <= u => m >= max_size(u)]_vars

\* C11 witness: max_size() has been evaluated on an object while an object for
\* a larger element type exists, and the result exceeds that one's max_size()
\* times sizeof(U) divided by sizeof(T).
C11_Witness ==
  /\ outcome.kind = "max_size"
  /\ \E i \in Inst, j \in Inst :
       /\ outcome.inst = i
       /\ Alive(i)
       /\ Alive(j)
       /\ elemSize[i] < elemSize[j]
       /\ outcome.value = max_size(elemSize[i])
       /\ outcome.value > (max_size(elemSize[j]) * elemSize[j]) \div elemSize[i]

\* C18: when allocate(num) obtains storage, the block has num * sizeof(T)
\* bytes modulo 2^SIZE_BITS; for num <= max_size() that is exactly
\* num * sizeof(T), and for a larger num, which allocate accepts as well, it is
\* less.
C18_MaxSizeIsSafe ==
  [][\A num \in SizeT :
       (allocate(Obs, num) /\ outcome'.kind = "ok") =>
         \A a \in Addr :
           (~Live(a) /\ Live(a)') =>
             /\ blocks'[a].bytes = MulSizeT(num, elemSize[Obs])
             /\ num <= max_size(elemSize[Obs]) =>
                  blocks'[a].bytes = num * elemSize[Obs]
             /\ num > max_size(elemSize[Obs]) =>
                  blocks'[a].bytes < num * elemSize[Obs]]_vars

\* C18 witness: a block obtained by allocate(max_size()) for the largest
\* element type, of exactly max_size() * sizeof(T) bytes.
C18_Witness ==
  /\ Alive(Obs)
  /\ elemSize[Obs] = MaxElemSize
  /\ outcome = Returned
  /\ \E a \in Addr :
       /\ Live(a)
       /\ blocks[a].num = max_size(MaxElemSize)
       /\ blocks[a].bytes = max_size(MaxElemSize) * MaxElemSize

\* C19: allocate and deallocate leave nConstructed unchanged, construct and
\* destroy leave nAllocated unchanged, and max_size, address, == and != leave
\* both counters unchanged, in every allocator object (stated by its
\* contrapositive: a step that changes nConstructed is no allocate and no
\* deallocate step, and so on).
C19_FrameConditions ==
  [][/\ nConstructed' # nConstructed =>
          /\ \A num \in SizeT : ~allocate(Obs, num)
          /\ \A p \in Pointers, num \in SizeT : ~deallocate(Obs, p, num)
     /\ nAllocated' # nAllocated =>
          /\ \A a \in Addr \cup {Caller}, k \in Slots : ~construct(Obs, a, k)
          /\ \A o \in Objects : ~destroy(Obs, o)
     /\ (nAllocated' # nAllocated \/ nConstructed' # nConstructed) =>
          /\ \A i \in Inst : ~MaxSize(i)
          /\ \A i \in Inst, o \in Objects : ~Address(i, o)
          /\ \A i \in Inst, j \in Inst : ~Compare(i, j)
    ]_vars

\* C19 witness: address() has been evaluated on a Counted object whose two
\* counters are non-zero and differ.
C19_Witness ==
  /\ Counted
  /\ outcome.kind = "address"
  /\ outcome.inst = Obs
  /\ nAllocated[Obs] # 0
  /\ nConstructed[Obs] # 0
  /\ nAllocated[Obs] # nConstructed[Obs]

\* C12: when ::operator new cannot satisfy allocate(num), the call ends with
\* std::bad_alloc and nothing else has happened: no storage was obtained in
\* another way, both counters, the objects and the allocator object are as
\* before; a teardown that follows succeeds exactly when both counters are 0.
C12_BadAllocLeavesState ==
  [][/\ \A num \in SizeT :
          (allocate(Obs, num) /\ outcome'.kind = "bad_alloc") =>
            /\ nAllocated' = nAllocated
            /\ nConstructed' = nConstructed
            /\ blocks' = blocks
            /\ objs' = objs
            /\ status' = status
            /\ Running'
     /\ (outcome = BadAlloc /\ Destructor(Obs)) =>
          (status'[Obs] = "destroyed" <=>
             (~Counted \/ (nAllocated[Obs] = 0 /\ nConstructed[Obs] = 0)))
    ]_vars

\* C12 witness: allocate has just ended with std::bad_alloc on a Counted
\* object that was in use and balanced; its counters are still 0.
C12_Witness ==
  /\ Counted
  /\ Alive(Obs)
  /\ outcome = BadAlloc
  /\ hist.worked
  /\ hist.netAlloc = 0
  /\ hist.netConstr = 0
  /\ nAllocated[Obs] = 0
  /\ nConstructed[Obs] = 0

\* C17: with cDefaultAllocator no assertion ever fires, whatever calls and
\* copies are made, and every teardown of an allocator object succeeds.
C17_PassthroughNeverAsserts ==
  [][~Counted =>
       /\ Running'
       /\ \A i \in Inst : Destructor(i) => status'[i] = "destroyed"]_vars

\* C17 witness: every cDefaultAllocator object has been destroyed while
\* storage it allocated is still in use and an object it constructed is
\* still alive.
C17_Witness ==
  /\ ~Counted
  /\ status[Obs] = "destroyed"
  /\ \A i \in Inst : ~Alive(i)
  /\ \E a \in Addr : Live(a)
  /\ objs # {}
  /\ Running

\* The four steps of the scenario (allocate, constructs, destroys, deallocate)
\* end after 1, n + 1, 2n + 1 and 2n + 2 calls.
ScenarioBoundary ==
  hist.step \in {0, 1, ScenarioElems + 1, 2 * ScenarioElems + 1,
                 2 * ScenarioElems + 2}

\* C13 (as stated): in the run with 3 elements on a default-constructed
\* Counted allocator object the counters are (0, 0) at each boundary of the
\* four steps.
C13_ZeroAtEachBoundary ==
  (Counted /\ ScenarioElems = ScenarioCount /\ ScenarioBoundary) =>
    (nAllocated[Obs] = 0 /\ nConstructed[Obs] = 0)

\* C13 (amended): in the run with n elements no assertion fires, and after
\* every call the counters are (0, 0) before allocate, (n, c) after allocate
\* and c constructs, (n, n - d) after d destroys, and (0, 0) after deallocate
\* and after the teardown, which succeeds.
C13_ScenarioCounters ==
  Counted =>
    /\ Running
    /\ LET n == ScenarioElems
           k == hist.step
       IN
       IF k = 0 THEN nAllocated[Obs] = 0 /\ nConstructed[Obs] = 0
       ELSE IF k <= n + 1 THEN nAllocated[Obs] = n /\ nConstructed[Obs] = k - 1
       ELSE IF k <= 2 * n + 1
         THEN nAllocated[Obs] = n /\ nConstructed[Obs] = 2 * n + 1 - k
       ELSE nAllocated[Obs] = 0 /\ nConstructed[Obs] = 0

\* C13 witness: the run with 3 elements is complete and the allocator object
\* has been destroyed.
C13_Witness ==
  /\ Counted
  /\ Running
  /\ status[Obs] = "destroyed"
  /\ hist.worked
  /\ hist.step = 2 * ScenarioCount + 2

\* C14 (as stated): when destroy is called on a Counted allocator object whose
\* nConstructed is 0, the assertion fails before the element's destructor has
\* run: the object p points to is still alive when the program is aborted.
C14_CheckBeforeDestructor ==
  [][\A o \in Objects :
       (Counted /\ nConstructed[Obs] = 0 /\ destroy(Obs, o)) =>
         (Aborted' /\ objs' = objs)]_vars

\* C15: the counters of an allocator object change only in calls made on
\* that object (and when it is constructed): no call on an object changes a
\* counter of another one, a copy or the original.
C15_CountersNotShared ==
  [][\A i \in Inst : \A j \in Inst \ {i} :
       (nAllocated'[j] # nAllocated[j] \/ nConstructed'[j] # nConstructed[j]) =>
         /\ \A num \in SizeT : ~allocate(i, num)
         /\ \A p \in Pointers, num \in SizeT : ~deallocate(i, p, num)
         /\ ~construct(i, Caller, 0)
         /\ ~destroy(i, CallerObj(i))
         /\ ~Destructor(i)
         /\ \A sz \in ElemSizes : ~DefaultCtor(i, sz)
         /\ \A dst \in Inst \ {j}, sz \in ElemSizes : ~CopyCtor(i, dst, sz)]_vars

\* C15 witness: a Counted object and its copy have both been destroyed
\* without assertion, no counter ever wrapped, and the allocate counts of the
\* two taken together differ from their deallocate counts.
C15_Witness ==
  /\ Counted
  /\ Running
  /\ \A i \in Inst : status[i] = "destroyed"
  /\ ~hist.over
  /\ ~hist.carried
  /\ hist.netAll # 0

\* A complete trace record: operation, count, element size and address,
\* closed by the end of the line.
CompleteRecord(r, op, num, size, at) ==
  r = [op |-> op, num |-> num, size |-> size, at |-> at, eol |-> TRUE]

\* Every allocate record of the trace t is answered: the next record after it
\* that names its address is a deallocate record with its count and size.
TraceMatched(t) ==
  \A k \in 1..Len(t) :
    t[k].op = "allocate" =>
      /\ t[k].eol
      /\ \E m \in (k + 1)..Len(t) :
           /\ CompleteRecord(t[m], "deallocate", t[k].num, t[k].size, t[k].at)
           /\ \A x \in (k + 1)..(m - 1) : t[x].at # t[k].at

\* C16 (as stated): every allocate call and every deallocate call appends
\* exactly one record with operation, count, element size and address to the
\* trace, no other call appends anything, and when the allocator object is
\* torn down after correct use every allocate record has been answered by a
\* deallocate record with the same count and address.
C16_OneRecordPerCall ==
  [][/\ \A num \in SizeT :
          allocate(Obs, num) =>
            /\ Len(hist'.cerr) = Len(hist.cerr) + 1
            /\ SubSeq(hist'.cerr, 1, Len(hist.cerr)) = hist.cerr
            /\ \E a \in Addr :
                 CompleteRecord(hist'.cerr[Len(hist'.cerr)], "allocate", num,
                                elemSize[Obs], a)
     /\ \A p \in Addr :
          (Live(p) /\ deallocate(Obs, p, blocks[p].num)) =>
            /\ Len(hist'.cerr) = Len(hist.cerr) + 1
            /\ SubSeq(hist'.cerr, 1, Len(hist.cerr)) = hist.cerr
            /\ CompleteRecord(hist'.cerr[Len(hist'.cerr)], "deallocate",
                              blocks[p].num, elemSize[Obs], p)
     /\ hist'.cerr # hist.cerr =>
          \/ \E num \in SizeT : allocate(Obs, num)
          \/ \E p \in Addr : Live(p) /\ deallocate(Obs, p, blocks[p].num)
     /\ (Destructor(Obs) /\ status'[Obs] = "destroyed") => TraceMatched(hist.cerr)
    ]_vars

====
